---- MODULE Spec2Model ----
(***************************************************************************)
(* Model of the notification generation pipeline of gittrack-discord-bot:  *)
(* LLMService (generateUserFriendlyMessage, the three backend adapters,    *)
(* formatJsonResponse, generateFallbackMessage) and PromptService.         *)
(*                                                                         *)
(* A JavaScript string is a sequence of characters; a character is a       *)
(* short TLA+ string.          The alphabet of the texts that are fed to   *)
(* the model has no backslash, no sign, no fraction and no control         *)
(* character other than the line feed, so string escapes and non-natural   *)
(* numbers are outside the JSON grammar modelled here.                     *)
(***************************************************************************)
EXTENDS Integers, Sequences, FiniteSets, TLC

(***************************************************************************)
(* Characters and string primitives of the JavaScript runtime.             *)
(***************************************************************************)
NL == "\n"
SP == " "
Q == "\""
\* The backtick (U+0060) and the bullet (U+2022) are named, not written.
BT == "<backtick>"
Bullet == "<bullet>"

Digits == <<"0", "1", "2", "3", "4", "5", "6", "7", "8", "9">>

IsWs(c) == c \in {SP, NL}

IsDigit(c) == \E d \in 1..10 : Digits[d] = c

DigitVal(c) == (CHOOSE d \in 1..10 : Digits[d] = c) - 1

\* String.prototype.startsWith, at an offset: s has pat at position p (1-based).
HasAt(s, pat, p) ==
    /\ p + Len(pat) - 1 <= Len(s)
    /\ \A k \in 1..Len(pat) : s[p + k - 1] = pat[k]

startsWith(s, pat) == HasAt(s, pat, 1)

\* s.replace(/<pat>\n?/g, ''): every leftmost non-overlapping occurrence of
\* the literal pat, with one optional line feed after it, is removed.
RECURSIVE ReplaceFrom(_, _, _)
ReplaceFrom(s, pat, p) ==
    IF p > Len(s) THEN <<>>
    ELSE IF HasAt(s, pat, p)
         THEN LET q == p + Len(pat)
                  r == IF q <= Len(s) /\ s[q] = NL THEN q + 1 ELSE q
              IN  ReplaceFrom(s, pat, r)
         ELSE <<s[p]>> \o ReplaceFrom(s, pat, p + 1)

replaceAll(s, pat) == ReplaceFrom(s, pat, 1)

\* String.prototype.trim
RECURSIVE TrimLeft(_)
TrimLeft(s) == IF s # <<>> /\ IsWs(Head(s)) THEN TrimLeft(Tail(s)) ELSE s

RECURSIVE TrimRight(_)
TrimRight(s) ==
    IF s # <<>> /\ IsWs(s[Len(s)]) THEN TrimRight(SubSeq(s, 1, Len(s) - 1)) ELSE s

trim(s) == TrimRight(TrimLeft(s))

\* s.split('\n'): the list of the lines of s (one more than its line feeds).
RECURSIVE split(_)
split(s) ==
    IF \A k \in 1..Len(s) : s[k] # NL THEN <<s>>
    ELSE LET k == CHOOSE j \in 1..Len(s) :
                      s[j] = NL /\ \A h \in 1..(j - 1) : s[h] # NL
         IN  <<SubSeq(s, 1, k - 1)>> \o split(SubSeq(s, k + 1, Len(s)))

\* list.join(sep)
RECURSIVE join(_, _)
join(list, sep) ==
    IF list = <<>> THEN <<>>
    ELSE IF Len(list) = 1 THEN list[1]
    ELSE list[1] \o sep \o join(Tail(list), sep)

\* Number to decimal text, as a template literal renders a natural number.
RECURSIVE NumberToString(_)
NumberToString(n) ==
    IF n < 10 THEN <<Digits[n + 1]>>
    ELSE NumberToString(n \div 10) \o <<Digits[(n % 10) + 1]>>

(***************************************************************************)
(* JavaScript values as JSON.parse builds them, and the coercions the      *)
(* template literals and operators of formatJsonResponse apply to them.    *)
(***************************************************************************)
Undefined == [t |-> "undefined"]
JNull == [t |-> "null"]
JBool(b) == [t |-> "boolean", b |-> b]
JNum(n) == [t |-> "number", n |-> n]
JStr(s) == [t |-> "string", s |-> s]
JArr(a) == [t |-> "array", a |-> a]
\* An object is the list of its members [k, v], in source order.
JObj(o) == [t |-> "object", o |-> o]

EOF == "<eof>"
At(s, p) == IF p >= 1 /\ p <= Len(s) THEN s[p] ELSE EOF

ParseFail == [ok |-> FALSE, val |-> Undefined, pos |-> 0]
ParseOk(v, p) == [ok |-> TRUE, val |-> v, pos |-> p]

RECURSIVE SkipWs(_, _)
SkipWs(s, p) == IF IsWs(At(s, p)) THEN SkipWs(s, p + 1) ELSE p

\* A string token at p: the characters up to the next quote; a raw line
\* feed inside a string is a syntax error.
ParseString(s, p) ==
    IF At(s, p) # Q \/ ~\E j \in (p + 1)..Len(s) : s[j] = Q THEN ParseFail
    ELSE LET j == CHOOSE i \in (p + 1)..Len(s) :
                      s[i] = Q /\ \A h \in (p + 1)..(i - 1) : s[h] # Q
         IN  IF \E h \in (p + 1)..(j - 1) : s[h] = NL THEN ParseFail
             ELSE ParseOk(JStr(SubSeq(s, p + 1, j - 1)), j + 1)

RECURSIVE DigitsValue(_, _, _)
DigitsValue(s, p, acc) ==
    IF IsDigit(At(s, p)) THEN DigitsValue(s, p + 1, 10 * acc + DigitVal(s[p]))
    ELSE ParseOk(JNum(acc), p)

\* A number token at p: 0, or a digit 1-9 followed by digits.
ParseNumber(s, p) ==
    IF At(s, p) = "0" THEN ParseOk(JNum(0), p + 1) ELSE DigitsValue(s, p, 0)

NullWord == <<"n", "u", "l", "l">>
TrueWord == <<"t", "r", "u", "e">>
FalseWord == <<"f", "a", "l", "s", "e">>

RECURSIVE ParseValue(_, _)
RECURSIVE ParseArrayRest(_, _, _)
RECURSIVE ParseObjectRest(_, _, _)

ParseArrayRest(s, p, acc) ==
    LET v == ParseValue(s, p)
        q == SkipWs(s, v.pos)
    IN  IF ~v.ok THEN ParseFail
        ELSE IF At(s, q) = "," THEN ParseArrayRest(s, q + 1, Append(acc, v.val))
        ELSE IF At(s, q) = "]" THEN ParseOk(JArr(Append(acc, v.val)), q + 1)
        ELSE ParseFail

ParseObjectRest(s, p, acc) ==
    LET k == ParseString(s, SkipWs(s, p))
        c == SkipWs(s, k.pos)
        v == ParseValue(s, c + 1)
        q == SkipWs(s, v.pos)
        m == [k |-> k.val.s, v |-> v.val]
    IN  IF ~k.ok \/ At(s, c) # ":" THEN ParseFail
        ELSE IF ~v.ok THEN ParseFail
        ELSE IF At(s, q) = "," THEN ParseObjectRest(s, q + 1, Append(acc, m))
        ELSE IF At(s, q) = "}" THEN ParseOk(JObj(Append(acc, m)), q + 1)
        ELSE ParseFail

ParseValue(s, p0) ==
    LET p == SkipWs(s, p0)
        c == At(s, p)
    IN  IF c = "{" THEN
            IF At(s, SkipWs(s, p + 1)) = "}"
            THEN ParseOk(JObj(<<>>), SkipWs(s, p + 1) + 1)
            ELSE ParseObjectRest(s, p + 1, <<>>)
        ELSE IF c = "[" THEN
            IF At(s, SkipWs(s, p + 1)) = "]"
            THEN ParseOk(JArr(<<>>), SkipWs(s, p + 1) + 1)
            ELSE ParseArrayRest(s, p + 1, <<>>)
        ELSE IF c = Q THEN ParseString(s, p)
        ELSE IF IsDigit(c) THEN ParseNumber(s, p)
        ELSE IF HasAt(s, NullWord, p) THEN ParseOk(JNull, p + 4)
        ELSE IF HasAt(s, TrueWord, p) THEN ParseOk(JBool(TRUE), p + 4)
        ELSE IF HasAt(s, FalseWord, p) THEN ParseOk(JBool(FALSE), p + 5)
        ELSE ParseFail

\* JSON.parse(text): [ok, val]; ok = FALSE is the SyntaxError.
JSONparse(text) ==
    LET v == ParseValue(text, 1)
    IN  IF v.ok /\ SkipWs(text, v.pos) = Len(text) + 1
        THEN [ok |-> TRUE, val |-> v.val]
        ELSE [ok |-> FALSE, val |-> Undefined]

\* value.key for a value that is neither null nor undefined: the last member
\* of that name of an object (JSON.parse keeps the last duplicate), the
\* length of a string or an array, undefined otherwise.
RECURSIVE Member(_, _)
Member(o, key) ==
    IF o = <<>> THEN Undefined
    ELSE IF o[Len(o)].k = key THEN o[Len(o)].v
    ELSE Member(SubSeq(o, 1, Len(o) - 1), key)

LengthKey == <<"l", "e", "n", "g", "t", "h">>

Get(v, key) ==
    IF v.t = "object" THEN Member(v.o, key)
    ELSE IF key = LengthKey /\ v.t = "string" THEN JNum(Len(v.s))
    ELSE IF key = LengthKey /\ v.t = "array" THEN JNum(Len(v.a))
    ELSE Undefined

\* String(value), as `${value}` computes it.
RECURSIVE StringOf(_)
RECURSIVE JoinValues(_)
JoinValues(a) ==
    IF a = <<>> THEN <<>>
    ELSE LET h == IF a[1].t \in {"null", "undefined"} THEN <<>> ELSE StringOf(a[1])
         IN  IF Len(a) = 1 THEN h ELSE h \o <<",">> \o JoinValues(Tail(a))

StringOf(v) ==
    CASE v.t = "undefined" -> <<"u", "n", "d", "e", "f", "i", "n", "e", "d">>
      [] v.t = "null" -> NullWord
      [] v.t = "boolean" -> IF v.b THEN TrueWord ELSE FalseWord
      [] v.t = "number" -> NumberToString(v.n)
      [] v.t = "string" -> v.s
      [] v.t = "array" -> JoinValues(v.a)
      [] v.t = "object" -> <<"[", "o", "b", "j", "e", "c", "t", " ",
                              "O", "b", "j", "e", "c", "t", "]">>

\* ToBoolean(value)
Truthy(v) ==
    CASE v.t \in {"undefined", "null"} -> FALSE
      [] v.t = "boolean" -> v.b
      [] v.t = "number" -> v.n # 0
      [] v.t = "string" -> v.s # <<>>
      [] v.t \in {"array", "object"} -> TRUE

\* value > 0: the value as a number (NaN compares false).
TextGreaterThanZero(s) ==
    LET w == trim(s)
    IN  /\ w # <<>>
        /\ \A k \in 1..Len(w) : IsDigit(w[k])
        /\ \E k \in 1..Len(w) : w[k] # "0"

GreaterThanZero(v) ==
    CASE v.t \in {"undefined", "null"} -> FALSE
      [] v.t = "boolean" -> v.b
      [] v.t = "number" -> v.n > 0
      [] v.t \in {"string", "array", "object"} -> TextGreaterThanZero(StringOf(v))

(***************************************************************************)
(* LLMService.formatJsonResponse                                           *)
(***************************************************************************)
FenceJson == <<BT, BT, BT, "j", "s", "o", "n">>
Fence == <<BT, BT, BT>>
SummaryKey == <<"s", "u", "m", "m", "a", "r", "y">>
ChangesKey == <<"c", "h", "a", "n", "g", "e", "s">>
UpdatePrefix == <<"U", "p", "d", "a", "t", "e", " ", "s", "u", "m", "m", "a", "r", "y", ":", " ">>

\* A variant that leaves the json fences in place.
stripJsonFencesNot(text) == text

\* rawResponse.replace(/```json\n?/g, '')
stripJsonFences(text) == replaceAll(text, FenceJson)

\* .replace(/```\n?/g, '')
stripFences(text) == replaceAll(text, Fence)

cleanedResponse(rawResponse) == trim(stripFences(stripJsonFences(rawResponse)))

\* change => `<bullet> ${change}`
BulletLine(change) == <<Bullet, SP>> \o StringOf(change)

\* A variant that renders the bullet block for every list, the empty one too.
HasChangesIfPresent(changes) == Truthy(changes)

\* parsed.changes && parsed.changes.length > 0
HasChanges(changes) == Truthy(changes) /\ GreaterThanZero(Get(changes, LengthKey))

\* A variant that reads the fields with optional chaining, so that nothing
\* raises: null has no summary, and changes that cannot be mapped are left out.
RenderNeverRaises(parsed) ==
    IF parsed.t = "null" THEN [threw |-> FALSE, msg |-> UpdatePrefix \o StringOf(Undefined)]
    ELSE LET summary == Get(parsed, SummaryKey)
             changes == Get(parsed, ChangesKey)
             formattedMessage == UpdatePrefix \o StringOf(summary)
         IN  IF ~HasChanges(changes)
             THEN [threw |-> FALSE, msg |-> formattedMessage]
             ELSE IF changes.t # "array" THEN [threw |-> FALSE, msg |-> formattedMessage]
             ELSE [threw |-> FALSE,
                   msg |-> formattedMessage \o <<NL, NL>> \o
                           join([k \in 1..Len(changes.a) |-> BulletLine(changes.a[k])],
                                <<NL>>)]

\* The try block after JSON.parse: [threw, msg].  Reading a property of
\* null, and calling map on a value that is no array, raise a TypeError.
Render(parsed) ==
    IF parsed.t = "null" THEN [threw |-> TRUE, msg |-> <<>>]
    ELSE LET summary == Get(parsed, SummaryKey)
             changes == Get(parsed, ChangesKey)
             formattedMessage == UpdatePrefix \o StringOf(summary)
         IN  IF ~HasChanges(changes)
             THEN [threw |-> FALSE, msg |-> formattedMessage]
             ELSE IF changes.t # "array" THEN [threw |-> TRUE, msg |-> <<>>]
             ELSE [threw |-> FALSE,
                   msg |-> formattedMessage \o <<NL, NL>> \o
                           join([k \in 1..Len(changes.a) |-> BulletLine(changes.a[k])],
                                <<NL>>)]

\* A variant whose catch block returns the cleaned text.
formatJsonResponseReturnsCleaned(rawResponse) ==
    LET parsed == JSONparse(cleanedResponse(rawResponse))
    IN  IF ~parsed.ok THEN cleanedResponse(rawResponse)
        ELSE LET r == Render(parsed.val)
             IN  IF r.threw THEN cleanedResponse(rawResponse) ELSE r.msg

\* The catch block returns rawResponse.
formatJsonResponse(rawResponse) ==
    LET parsed == JSONparse(cleanedResponse(rawResponse))
    IN  IF ~parsed.ok THEN rawResponse
        ELSE LET r == Render(parsed.val)
             IN  IF r.threw THEN rawResponse ELSE r.msg

(***************************************************************************)
(* LLMService.generateFallbackMessage.  A call either returns a message    *)
(* or throws: [kind, msg, err].                                            *)
(***************************************************************************)
\* An error: its name, and the diagnostic detail its message carries.
Error(name, status, detail) == [name |-> name, status |-> status, detail |-> detail]
NoError == Error("none", 0, "none")
TypeError == Error("TypeError", 0, "none")

Returned(msg) == [kind |-> "returned", msg |-> msg, err |-> NoError]
Threw(err) == [kind |-> "threw", msg |-> <<>>, err |-> err]

MoreOpen == <<" ", "(", "+">>
MoreClose == <<" ", "m", "o", "r", "e", ")">>

\* A variant that takes the title of the last commit.
generateFallbackMessageOfLast(commits, repository) ==
    LET commitCount == Len(commits)
    IN  IF commitCount = 1 THEN Returned(split(commits[1].message)[1])
        ELSE IF commitCount = 0 THEN Threw(TypeError)
        ELSE LET firstCommitTitle == split(commits[commitCount].message)[1]
             IN  Returned(firstCommitTitle \o MoreOpen \o
                          NumberToString(commitCount - 1) \o MoreClose)

\* commits[0] is undefined for an empty list, and reading its message
\* raises a TypeError.
generateFallbackMessage(commits, repository) ==
    LET commitCount == Len(commits)
    IN  IF commitCount = 1 THEN Returned(split(commits[1].message)[1])
        ELSE IF commitCount = 0 THEN Threw(TypeError)
        ELSE LET firstCommitTitle == split(commits[1].message)[1]
             IN  Returned(firstCommitTitle \o MoreOpen \o
                          NumberToString(commitCount - 1) \o MoreClose)

(***************************************************************************)
(* PromptService.  A diff is null or a text: [null, text].                 *)
(***************************************************************************)
NullDiff == [null |-> TRUE, text |-> <<>>]
DiffText(text) == [null |-> FALSE, text |-> text]

NoDiffAvailable ==
    <<"N", "o", " ", "d", "i", "f", "f", " ", "a", "v", "a", "i", "l", "a", "b", "l", "e">>

DiffGit == <<"d", "i", "f", "f", " ", "-", "-", "g", "i", "t">>
IndexSp == <<"i", "n", "d", "e", "x", " ">>
MinusSp == <<"-", "-", "-", " ">>
PlusSp == <<"+", "+", "+", " ">>
HunkSp == <<"@", "@", " ">>
Hunk == <<"@", "@">>

\* The lines copied as diff headers.
IsHeader(line) ==
    \/ startsWith(line, DiffGit)
    \/ startsWith(line, IndexSp)
    \/ startsWith(line, MinusSp)
    \/ startsWith(line, PlusSp)
    \/ startsWith(line, HunkSp)

IsChanged(line) == startsWith(line, <<"+">>) \/ startsWith(line, <<"-">>)

\* The test the line before and the line after a changed line must pass.
IsContext(line) == ~IsChanged(line) /\ ~startsWith(line, Hunk)

\* The loop of filterDiffToChanges from index i (1-based) on: out is the
\* list of the indices pushed to filteredLines so far, addedLines the set.
RECURSIVE FilterLoop(_, _, _, _)
FilterLoop(lines, i, out, addedLines) ==
    IF i > Len(lines) THEN out
    ELSE IF IsHeader(lines[i]) THEN FilterLoop(lines, i + 1, Append(out, i), addedLines)
    ELSE IF ~IsChanged(lines[i]) THEN FilterLoop(lines, i + 1, out, addedLines)
    ELSE LET before == i > 1 /\ (i - 1) \notin addedLines /\ IsContext(lines[i - 1])
             out1 == IF before THEN Append(out, i - 1) ELSE out
             added1 == IF before THEN addedLines \cup {i - 1} ELSE addedLines
             out2 == Append(out1, i)
             added2 == added1 \cup {i}
             after == i < Len(lines) /\ (i + 1) \notin added2 /\ IsContext(lines[i + 1])
             out3 == IF after THEN Append(out2, i + 1) ELSE out2
             added3 == IF after THEN added2 \cup {i + 1} ELSE added2
         IN  FilterLoop(lines, i + 1, out3, added3)

\* The indices of the lines of the diff text, in the order they are emitted.
FilteredIndicesFromSecond(lines) == FilterLoop(lines, 2, <<>>, {})

FilteredIndices(lines) == FilterLoop(lines, 1, <<>>, {})

filterDiffToChangesNullOnly(diff) ==
    IF diff.null THEN NoDiffAvailable
    ELSE LET lines == split(diff.text)
             idx == FilteredIndices(lines)
         IN  join([k \in 1..Len(idx) |-> lines[idx[k]]], <<NL>>)

filterDiffToChanges(diff) ==
    IF diff.null \/ diff.text = <<>> THEN NoDiffAvailable
    ELSE LET lines == split(diff.text)
             idx == FilteredIndices(lines)
         IN  join([k \in 1..Len(idx) |-> lines[idx[k]]], <<NL>>)

\* The prompt is the fixed template with the repository name and the
\* filtered diff substituted: the two substituted texts stand for it.
generatePushPromptWithCount(commits, repository, diff) ==
    [repoName |-> repository.name,
     filteredDiff |-> NumberToString(Len(commits)) \o <<NL>> \o filterDiffToChanges(diff)]

generatePushPrompt(commits, repository, diff) ==
    [repoName |-> repository.name, filteredDiff |-> filterDiffToChanges(diff)]

\* The template's own lines (all but the line holding the filtered diff).
TemplateLines == 51

PromptLineCount(prompt) == TemplateLines + Len(split(prompt.filteredDiff))

(***************************************************************************)
(* logPromptInChunks / logResponseInChunks: a task that logs chunkSize     *)
(* lines at a time and waits for a timer between two chunks.               *)
(***************************************************************************)
chunkSize == 50

\* The number of timers a chunked-logging task of lineCount lines waits for.
ChunkWaits(lineCount) == (lineCount - 1) \div chunkSize

SystemMessage == "You are a technical writer that converts commit messages into clear, factual update announcements."

(***************************************************************************)
(* createDiscordEmbed.  A text built from opaque parts (names, URLs) is    *)
(* the sequence of its parts.                                              *)
(***************************************************************************)
GitHubGreen == 2664261
FooterText == "GitTrack Enhanced <bullet> AI-Powered Updates"
FooterIcon == "https://github.githubassets.com/images/modules/logos_page/GitHub-Mark.png"

\* `[${text}](${url})`
MarkdownLink(text, url) == <<"[", text, "](", url, ")">>

\* The parameter hideGitHubLinks = false: an omitted argument is false.
HideGitHubLinks(arg) == IF arg = "omitted" THEN FALSE ELSE arg = "true"

\* A variant that hides the links by an empty list of fields.
createDiscordEmbedEmptyFields(message, repository, compareUrl, hideGitHubLinks, now) ==
    [color |-> GitHubGreen,
     description |-> message,
     timestamp |-> now,
     footer |-> [text |-> FooterText, icon_url |-> FooterIcon],
     fields |-> IF HideGitHubLinks(hideGitHubLinks) THEN <<>>
                ELSE << [name |-> "Repository",
                         value |-> MarkdownLink(repository.full_name, repository.html_url),
                         inline |-> TRUE],
                        [name |-> "View Changes",
                         value |-> MarkdownLink("Compare", compareUrl),
                         inline |-> TRUE] >>]

\* now is what new Date().toISOString() returns.
createDiscordEmbed(message, repository, compareUrl, hideGitHubLinks, now) ==
    LET base == [color |-> GitHubGreen,
                 description |-> message,
                 timestamp |-> now,
                 footer |-> [text |-> FooterText, icon_url |-> FooterIcon]]
    IN  IF ~HideGitHubLinks(hideGitHubLinks)
        THEN [color |-> base.color,
              description |-> base.description,
              timestamp |-> base.timestamp,
              footer |-> base.footer,
              fields |-> << [name |-> "Repository",
                             value |-> MarkdownLink(repository.full_name, repository.html_url),
                             inline |-> TRUE],
                            [name |-> "View Changes",
                             value |-> MarkdownLink("Compare", compareUrl),
                             inline |-> TRUE] >>]
        ELSE base

(***************************************************************************)
(* The inputs of the model: what a caller passes to                        *)
(* generateUserFriendlyMessage and what a backend answers.                 *)
(***************************************************************************)
MaxCommits == 2

\* The calls of generateUserFriendlyMessage on the one exported instance.
Invocations == {"call1", "call2"}

CommitMessages == {<<"a">>, <<"a", NL, "b">>, <<>>}
Commits == [message : CommitMessages]
CommitLists == UNION {[1..n -> Commits] : n \in 0..MaxCommits}

Providers == {"openai", "openrouter", "gemini", "claude"}
ApiKeys == {"key1", "key2"}
Repositories ==
    {[name |-> "bot", full_name |-> "me/bot", html_url |-> "https://github.com/me/bot"],
     [name |-> "web", full_name |-> "me/web", html_url |-> "https://github.com/me/web"]}
Diffs == {NullDiff, DiffText(<<"+", "a", NL, " ", "b">>)}

Quote(s) == <<Q>> \o s \o <<Q>>
Pair(k, v) == Quote(k) \o <<":">> \o v
ObjText(members) == <<"{">> \o join(members, <<",">>) \o <<"}">>
ArrText(items) == <<"[">> \o join(items, <<",">>) \o <<"]">>

\* Texts of the {summary, changes} shape.
ShapedBodies ==
    {ObjText(<<Pair(SummaryKey, Quote(<<"a", "b">>)),
               Pair(ChangesKey, ArrText(<<Quote(<<"c">>), Quote(<<"d">>)>>))>>),
     ObjText(<<Pair(SummaryKey, Quote(<<"a", "b">>)), Pair(ChangesKey, ArrText(<<>>))>>),
     ObjText(<<Pair(SummaryKey, Quote(<<"a", "b">>))>>),
     ObjText(<<Pair(SummaryKey, Quote(<<"a", BT, BT, BT, "b">>)),
               Pair(ChangesKey, ArrText(<<Quote(<<BT, BT, BT, "j", "s", "o", "n", "c">>)>>))>>),
     ObjText(<<Pair(SummaryKey, Quote(<<"a">>)),
               Pair(ChangesKey, ArrText(<<Quote(<<"c">>), Quote(<<>>)>>))>>),
     <<"{", NL, SP>> \o Pair(SummaryKey, <<SP>> \o Quote(<<"a", SP, "b">>)) \o <<",", NL, SP>>
         \o Pair(ChangesKey, <<SP, "[", SP>> \o Quote(<<"c">>) \o <<SP, "]">>) \o <<NL, "}">>}

\* Valid JSON of another shape, and texts that are no JSON at all.
OtherBodies ==
    {NullWord,
     ArrText(<<Quote(<<"a">>)>>),
     <<"4", "2">>,
     Quote(<<"a", "b">>),
     ObjText(<<Pair(ChangesKey, ArrText(<<Quote(<<"c">>)>>))>>),
     ObjText(<<Pair(SummaryKey, Quote(<<"a">>)), Pair(ChangesKey, Quote(<<"c", "d">>))>>),
     <<"{">> \o Pair(SummaryKey, Quote(<<"a">>)),
     <<"a", "b", SP, "c">>,
     <<>>}

Bodies == ShapedBodies \cup OtherBodies

JsonFenced(b) == FenceJson \o <<NL>> \o b \o <<NL>> \o Fence
Fenced(b) == Fence \o <<NL>> \o b \o <<NL>> \o Fence
Padded(b) == <<SP>> \o b \o <<NL>>
\* A fence whose opening marker carries another language tag.
TagFenced(b) == Fence \o <<"j", "s", NL>> \o b \o <<NL>> \o Fence

\* The texts formatJsonResponse is applied to on its own.
FormatInputs ==
    Bodies \cup {JsonFenced(b) : b \in Bodies} \cup {Fenced(b) : b \in Bodies}
           \cup {Padded(b) : b \in Bodies} \cup {TagFenced(b) : b \in Bodies}

\* The texts a backend may answer with: prose, JSON of the asked shape and
\* a cut-off answer, bare, fenced or padded, and the empty text.
ResponseTexts ==
    LET prose == <<"a", "b", SP, "c">>
        full == ObjText(<<Pair(SummaryKey, Quote(<<"a", "b">>)),
                          Pair(ChangesKey, ArrText(<<Quote(<<"c">>), Quote(<<"d">>)>>))>>)
        none == ObjText(<<Pair(SummaryKey, Quote(<<"a", "b">>)), Pair(ChangesKey, ArrText(<<>>))>>)
        cut == <<"{">> \o Pair(SummaryKey, Quote(<<"a">>))
    IN  {<<>>, <<SP, NL>>, prose, JsonFenced(prose), full, JsonFenced(full), Padded(none),
         Fenced(cut)}

\* message.content of a choice: null or a text.
NullContent == [null |-> TRUE, text |-> <<>>]
TextContent(t) == [null |-> FALSE, text |-> t]

\* The body of a chat completion: the list of the contents of its choices.
Completions ==
    {[choices |-> <<>>], [choices |-> <<NullContent>>]}
        \cup {[choices |-> <<TextContent(t)>>] : t \in ResponseTexts}
        \cup {[choices |-> <<TextContent(<<"a", "b", SP, "c">>), TextContent(<<>>)>>]}

\* What makes a backend call fail: the detail the error carries.
TransportErrors == {"ECONNRESET", "ETIMEDOUT"}
\* HTTP statuses of a fetch response; response.ok is 200 <= status < 300.
Statuses == {200, 401, 500}
ErrorBodies == {"invalid key", "overloaded"}

(***************************************************************************)
(* State.  openai and gemini are the fields of the exported LLMService     *)
(* instance; the other variables hold, per invocation, its position (the   *)
(* await it is suspended at), its arguments and locals, the promise it     *)
(* returned, its chunked-logging tasks, and a record of what it did.       *)
(***************************************************************************)
VARIABLES openai, gemini, pc, args, prompt, response, rawResponse, caught,
          outcome, promptLog, responseLog, sent, trace, embed

vars == <<openai, gemini, pc, args, prompt, response, rawResponse, caught,
          outcome, promptLog, responseLog, sent, trace, embed>>

NoClient == [set |-> FALSE, apiKey |-> "none"]
Client(apiKey) == [set |-> TRUE, apiKey |-> apiKey]

NoArgs ==
    [commits |-> <<>>, provider |-> "none", apiKey |-> "none",
     repository |-> [name |-> "none", full_name |-> "none", html_url |-> "none"],
     diff |-> NullDiff]
NoPrompt == [repoName |-> "none", filteredDiff |-> <<>>]
NoResponse == [ok |-> FALSE, status |-> 0]
NoText == [set |-> FALSE, text |-> <<>>]
Text(t) == [set |-> TRUE, text |-> t]
Pending == [kind |-> "pending", msg |-> <<>>, err |-> NoError]
NoLog == [started |-> FALSE, waits |-> 0]
Log(lineCount) == [started |-> TRUE, waits |-> ChunkWaits(lineCount)]

\* No call of createDiscordEmbed yet.
NoEmbed == [called |-> FALSE]

\* The state after construction, with the invocations of `callers` yet to come.
InitWith(callers) ==
    /\ openai = NoClient
    /\ gemini = NoClient
    /\ pc = [i \in Invocations |-> IF i \in callers THEN "idle" ELSE "unused"]
    /\ args = [i \in Invocations |-> NoArgs]
    /\ prompt = [i \in Invocations |-> NoPrompt]
    /\ response = [i \in Invocations |-> NoResponse]
    /\ rawResponse = [i \in Invocations |-> NoText]
    /\ caught = [i \in Invocations |-> NoError]
    /\ outcome = [i \in Invocations |-> Pending]
    /\ promptLog = [i \in Invocations |-> NoLog]
    /\ responseLog = [i \in Invocations |-> NoLog]
    /\ sent = [i \in Invocations |-> <<>>]
    /\ trace = [i \in Invocations |-> <<>>]
    /\ embed = [i \in Invocations |-> NoEmbed]

Init == InitWith({"call1"})

(***************************************************************************)
(* generateUserFriendlyMessage, from the value or the exception of the     *)
(* awaited adapter to the settled promise.                                 *)
(***************************************************************************)
\* A variant whose formatJsonResponse lets the parse error out, to the
\* outer catch.
ReturnFormattedOrFallback(i, text, events) ==
    /\ rawResponse' = [rawResponse EXCEPT ![i] = Text(text)]
    /\ caught' = [caught EXCEPT ![i] =
                      IF JSONparse(cleanedResponse(text)).ok THEN @
                      ELSE Error("SyntaxError", 0, "none")]
    /\ outcome' = [outcome EXCEPT ![i] =
                      IF JSONparse(cleanedResponse(text)).ok
                      THEN Returned(formatJsonResponse(text))
                      ELSE generateFallbackMessage(args[i].commits, args[i].repository)]
    /\ trace' = [trace EXCEPT ![i] =
                    IF JSONparse(cleanedResponse(text)).ok
                    THEN @ \o events \o <<"formatJsonResponse">>
                    ELSE @ \o events \o <<"formatJsonResponse", "throw", "catch",
                                          "generateFallbackMessage">>]
    /\ pc' = [pc EXCEPT ![i] = "done"]

\* return this.formatJsonResponse(rawResponse)
ReturnFormatted(i, text, events) ==
    /\ rawResponse' = [rawResponse EXCEPT ![i] = Text(text)]
    /\ caught' = caught
    /\ outcome' = [outcome EXCEPT ![i] = Returned(formatJsonResponse(text))]
    /\ trace' = [trace EXCEPT ![i] = @ \o events \o <<"formatJsonResponse">>]
    /\ pc' = [pc EXCEPT ![i] = "done"]

\* A variant without the catch: the adapter's exception rejects the promise.
CatchErrorRethrows(i, a, error, events) ==
    /\ rawResponse' = rawResponse
    /\ caught' = caught
    /\ outcome' = [outcome EXCEPT ![i] = Threw(error)]
    /\ trace' = [trace EXCEPT ![i] = @ \o events]
    /\ pc' = [pc EXCEPT ![i] = "done"]

\* A variant whose message ends with the detail of the exception.
CatchErrorTellsDetail(i, a, error, events) ==
    /\ rawResponse' = rawResponse
    /\ caught' = [caught EXCEPT ![i] = error]
    /\ outcome' = [outcome EXCEPT ![i] =
                      LET fallback == generateFallbackMessage(a.commits, a.repository)
                      IN  IF fallback.kind = "returned"
                          THEN Returned(fallback.msg \o <<SP, error.detail>>)
                          ELSE fallback]
    /\ trace' = [trace EXCEPT ![i] = @ \o events \o <<"catch", "generateFallbackMessage">>]
    /\ pc' = [pc EXCEPT ![i] = "done"]

\* catch (error) { return this.generateFallbackMessage(commits, repository) }
\* An exception of generateFallbackMessage rejects the promise.
CatchError(i, a, error, events) ==
    /\ rawResponse' = rawResponse
    /\ caught' = [caught EXCEPT ![i] = error]
    /\ outcome' = [outcome EXCEPT ![i] = generateFallbackMessage(a.commits, a.repository)]
    /\ trace' = [trace EXCEPT ![i] = @ \o events \o <<"catch", "generateFallbackMessage">>]
    /\ pc' = [pc EXCEPT ![i] = "done"]

\* A variant whose inner handler swallows the exception and hands the try
\* block an empty text.
AdapterSettlesSwallows(i, r, events) ==
    IF r.kind = "returned"
    THEN ReturnFormatted(i, r.msg, events)
    ELSE ReturnFormatted(i, <<>>, events \o <<"throw">>)

\* The adapter's result r, a text or an exception, reaches the try block.
AdapterSettles(i, r, events) ==
    IF r.kind = "returned"
    THEN ReturnFormatted(i, r.msg, events)
    ELSE CatchError(i, args[i], r.err, events \o <<"throw">>)

\* response.choices[0].message.content.trim()
FirstChoiceText(completion) ==
    IF completion.choices = <<>> THEN Threw(TypeError)
    ELSE IF completion.choices[1].null THEN Threw(TypeError)
    ELSE Returned(trim(completion.choices[1].text))

\* The chat request of the OpenAI and the OpenRouter adapter: a system
\* message and the prompt as user message.
Request(backend, apiKey, p) ==
    [backend |-> backend, apiKey |-> apiKey, system |-> SystemMessage, prompt |-> p]

\* model.generateContent(prompt): the prompt and nothing else.
NoSystemMessage == "none"
GeminiRequest(apiKey, p) ==
    [backend |-> "gemini", apiKey |-> apiKey, system |-> NoSystemMessage, prompt |-> p]

\* A variant that creates the client once and keeps it for later calls.
StartOpenAIKeepsClient(i, a) ==
    LET p == generatePushPrompt(a.commits, a.repository, a.diff)
    IN  /\ openai' = IF openai.set THEN openai ELSE Client(a.apiKey)
        /\ gemini' = gemini
        /\ prompt' = [prompt EXCEPT ![i] = p]
        /\ promptLog' = promptLog
        /\ sent' = [sent EXCEPT ![i] = Append(@, Request("openai", openai'.apiKey, p))]
        /\ trace' = [trace EXCEPT ![i] =
                        @ \o <<"generateWithOpenAI", "initializeOpenAI", "request">>]
        /\ pc' = [pc EXCEPT ![i] = "awaitCreate"]
        /\ UNCHANGED <<rawResponse, caught, outcome>>

\* The request of generateWithOpenAI: this.openai is replaced, then used.
StartOpenAI(i, a) ==
    LET p == generatePushPrompt(a.commits, a.repository, a.diff)
    IN  /\ openai' = Client(a.apiKey)
        /\ gemini' = gemini
        /\ prompt' = [prompt EXCEPT ![i] = p]
        /\ promptLog' = promptLog
        /\ sent' = [sent EXCEPT ![i] = Append(@, Request("openai", openai'.apiKey, p))]
        /\ trace' = [trace EXCEPT ![i] =
                        @ \o <<"generateWithOpenAI", "initializeOpenAI", "request">>]
        /\ pc' = [pc EXCEPT ![i] = "awaitCreate"]
        /\ UNCHANGED <<rawResponse, caught, outcome>>

\* A variant that posts the request a second time.
StartOpenRouterTwice(i, a) ==
    LET p == generatePushPrompt(a.commits, a.repository, a.diff)
    IN  /\ UNCHANGED <<openai, gemini>>
        /\ prompt' = [prompt EXCEPT ![i] = p]
        /\ promptLog' = [promptLog EXCEPT ![i] = Log(PromptLineCount(p))]
        /\ sent' = [sent EXCEPT ![i] = @ \o <<Request("openrouter", a.apiKey, p),
                                               Request("openrouter", a.apiKey, p)>>]
        /\ trace' = [trace EXCEPT ![i] = @ \o <<"generateWithOpenRouter", "request", "request">>]
        /\ pc' = [pc EXCEPT ![i] = "awaitFetch"]
        /\ UNCHANGED <<rawResponse, caught, outcome>>

\* The request of generateWithOpenRouter, after the logging task is started.
StartOpenRouter(i, a) ==
    LET p == generatePushPrompt(a.commits, a.repository, a.diff)
    IN  /\ UNCHANGED <<openai, gemini>>
        /\ prompt' = [prompt EXCEPT ![i] = p]
        /\ promptLog' = [promptLog EXCEPT ![i] = Log(PromptLineCount(p))]
        /\ sent' = [sent EXCEPT ![i] = Append(@, Request("openrouter", a.apiKey, p))]
        /\ trace' = [trace EXCEPT ![i] = @ \o <<"generateWithOpenRouter", "request">>]
        /\ pc' = [pc EXCEPT ![i] = "awaitFetch"]
        /\ UNCHANGED <<rawResponse, caught, outcome>>

\* The request of generateWithGemini.
StartGemini(i, a) ==
    LET p == generatePushPrompt(a.commits, a.repository, a.diff)
    IN  /\ openai' = openai
        /\ gemini' = Client(a.apiKey)
        /\ prompt' = [prompt EXCEPT ![i] = p]
        /\ promptLog' = [promptLog EXCEPT ![i] = Log(PromptLineCount(p))]
        /\ sent' = [sent EXCEPT ![i] = Append(@, GeminiRequest(gemini'.apiKey, p))]
        /\ trace' = [trace EXCEPT ![i] =
                        @ \o <<"generateWithGemini", "initializeGemini", "request">>]
        /\ pc' = [pc EXCEPT ![i] = "awaitGenerate"]
        /\ UNCHANGED <<rawResponse, caught, outcome>>

\* A variant that creates the client before it looks at the provider.
UnsupportedAfterInit(i, a) ==
    /\ openai' = Client(a.apiKey)
    /\ UNCHANGED <<gemini, prompt, promptLog, sent>>
    /\ CatchError(i, a, Error("Unsupported provider", 0, a.provider), <<"initializeOpenAI", "throw">>)

\* throw new Error(`Unsupported provider: ...`), caught at once.
Unsupported(i, a) ==
    /\ UNCHANGED <<openai, gemini, prompt, promptLog, sent>>
    /\ CatchError(i, a, Error("Unsupported provider", 0, a.provider), <<"throw">>)

\* The provider dispatch of generateUserFriendlyMessage.
Dispatch(i, a) ==
    IF a.provider = "openai" THEN StartOpenAI(i, a)
    ELSE IF a.provider = "openrouter" THEN StartOpenRouter(i, a)
    ELSE IF a.provider = "gemini" THEN StartGemini(i, a)
    ELSE Unsupported(i, a)

\* A call of generateUserFriendlyMessage, up to its first await.
CallWith(i, pushes) ==
    /\ pc[i] = "idle"
    /\ \E push \in pushes, provider \in Providers, apiKey \in ApiKeys :
          LET a == [commits |-> push.commits, provider |-> provider, apiKey |-> apiKey,
                    repository |-> push.repository, diff |-> push.diff]
          IN  /\ args' = [args EXCEPT ![i] = a]
              /\ Dispatch(i, a)
    /\ UNCHANGED <<response, responseLog, embed>>

Call(i) == CallWith(i, [commits : CommitLists, repository : Repositories, diff : Diffs])

\* openai.chat.completions.create settles: it rejects, or resolves with a
\* completion.
CreateSettles(i) ==
    /\ pc[i] = "awaitCreate"
    /\ \/ \E e \in TransportErrors : AdapterSettles(i, Threw(Error("APIError", 0, e)), <<>>)
       \/ \E c \in Completions : AdapterSettles(i, FirstChoiceText(c), <<>>)
    /\ UNCHANGED <<embed, openai, gemini, args, prompt, response, promptLog, responseLog, sent>>

\* A variant that parses the body of every response, whatever its status.
FetchSettlesIgnoresStatus(i) ==
    /\ pc[i] = "awaitFetch"
    /\ \/ /\ \E e \in TransportErrors : AdapterSettles(i, Threw(Error("FetchError", 0, e)), <<>>)
          /\ UNCHANGED response
       \/ /\ \E status \in Statuses :
                /\ response' = [response EXCEPT ![i] =
                                    [ok |-> status >= 200 /\ status < 300, status |-> status]]
                /\ pc' = [pc EXCEPT ![i] = "awaitJson"]
          /\ UNCHANGED <<rawResponse, caught, outcome, trace>>
    /\ UNCHANGED <<embed, openai, gemini, args, prompt, promptLog, responseLog, sent>>

\* fetch settles: it rejects, or resolves with a response of some status;
\* the adapter then awaits response.text() or response.json().
FetchSettles(i) ==
    /\ pc[i] = "awaitFetch"
    /\ \/ /\ \E e \in TransportErrors : AdapterSettles(i, Threw(Error("FetchError", 0, e)), <<>>)
          /\ UNCHANGED response
       \/ /\ \E status \in Statuses :
                /\ response' = [response EXCEPT ![i] =
                                    [ok |-> status >= 200 /\ status < 300, status |-> status]]
                /\ pc' = [pc EXCEPT ![i] =
                             IF status >= 200 /\ status < 300 THEN "awaitJson" ELSE "awaitText"]
          /\ UNCHANGED <<rawResponse, caught, outcome, trace>>
    /\ UNCHANGED <<embed, openai, gemini, args, prompt, promptLog, responseLog, sent>>

\* response.text() of a non-2xx response settles; the adapter throws the
\* error that carries the status.
TextSettles(i) ==
    /\ pc[i] = "awaitText"
    /\ \/ \E e \in TransportErrors : AdapterSettles(i, Threw(Error("FetchError", 0, e)), <<>>)
       \/ \E body \in ErrorBodies :
             AdapterSettles(i, Threw(Error("OpenRouter API error", response[i].status, "statusText")), <<>>)
    /\ UNCHANGED <<embed, openai, gemini, args, prompt, response, promptLog, responseLog, sent>>

\* A variant that awaits the logging of the prompt before it goes on.
JsonSettlesAfterLog(i) ==
    /\ pc[i] = "awaitJson"
    /\ promptLog[i].waits = 0
    /\ \/ /\ AdapterSettles(i, Threw(Error("SyntaxError", 0, "none")), <<>>)
          /\ UNCHANGED responseLog
       \/ \E c \in Completions :
             /\ AdapterSettles(i, FirstChoiceText(c), <<>>)
             /\ responseLog' = [responseLog EXCEPT ![i] =
                                   IF FirstChoiceText(c).kind = "returned"
                                   THEN Log(Len(split(c.choices[1].text))) ELSE @]
    /\ UNCHANGED <<embed, openai, gemini, args, prompt, response, promptLog, sent>>

\* response.json() of a 2xx response settles: it rejects (the body is no
\* JSON), or resolves with a completion.
JsonSettles(i) ==
    /\ pc[i] = "awaitJson"
    /\ \/ /\ AdapterSettles(i, Threw(Error("SyntaxError", 0, "none")), <<>>)
          /\ UNCHANGED responseLog
       \/ \E c \in Completions :
             /\ AdapterSettles(i, FirstChoiceText(c), <<>>)
             /\ responseLog' = [responseLog EXCEPT ![i] =
                                   IF FirstChoiceText(c).kind = "returned"
                                   THEN Log(Len(split(c.choices[1].text))) ELSE @]
    /\ UNCHANGED <<embed, openai, gemini, args, prompt, response, promptLog, sent>>

\* model.generateContent settles: it rejects, and the adapter rethrows, or
\* it resolves and the adapter awaits result.response.
GenerateSettles(i) ==
    /\ pc[i] = "awaitGenerate"
    /\ \/ \E e \in TransportErrors :
             AdapterSettles(i, Threw(Error("Gemini API error", 0, e)), <<"throw", "catch">>)
       \/ /\ pc' = [pc EXCEPT ![i] = "awaitResponse"]
          /\ UNCHANGED <<rawResponse, caught, outcome, trace>>
    /\ UNCHANGED <<embed, openai, gemini, args, prompt, response, promptLog, responseLog, sent>>

\* result.response settles and response.text() returns the text or throws
\* (a blocked answer); the adapter rethrows what it catches.
ResponseSettles(i) ==
    /\ pc[i] = "awaitResponse"
    /\ \/ /\ AdapterSettles(i, Threw(Error("Gemini API error", 0, "blocked")), <<"throw", "catch">>)
          /\ UNCHANGED responseLog
       \/ \E t \in ResponseTexts :
             /\ AdapterSettles(i, Returned(trim(t)), <<>>)
             /\ responseLog' = [responseLog EXCEPT ![i] = Log(Len(split(t)))]
    /\ UNCHANGED <<embed, openai, gemini, args, prompt, response, promptLog, sent>>

\* The timer a chunked-logging task waits for fires, and it logs a chunk.
LogTimer(i) ==
    /\ \/ /\ promptLog[i].waits > 0
          /\ promptLog' = [promptLog EXCEPT ![i].waits = @ - 1]
          /\ UNCHANGED responseLog
       \/ /\ responseLog[i].waits > 0
          /\ responseLog' = [responseLog EXCEPT ![i].waits = @ - 1]
          /\ UNCHANGED promptLog
    /\ UNCHANGED <<embed, openai, gemini, pc, args, prompt, response, rawResponse, caught,
                   outcome, sent, trace>>

Next ==
    \E i \in Invocations :
        \/ Call(i)
        \/ CreateSettles(i)
        \/ FetchSettles(i)
        \/ TextSettles(i)
        \/ JsonSettles(i)
        \/ GenerateSettles(i)
        \/ ResponseSettles(i)
        \/ LogTimer(i)

Spec == Init /\ [][Next]_vars

(***************************************************************************)
(* Spec with every awaited backend promise eventually settling: the        *)
(* create, fetch, text, json, generateContent and response promises each   *)
(* resolve or reject once awaited.                                         *)
(***************************************************************************)
BackendsSettle ==
    \A i \in Invocations :
        /\ WF_vars(CreateSettles(i))
        /\ WF_vars(FetchSettles(i))
        /\ WF_vars(TextSettles(i))
        /\ WF_vars(JsonSettles(i))
        /\ WF_vars(GenerateSettles(i))
        /\ WF_vars(ResponseSettles(i))

SpecLive == Init /\ [][Next]_vars /\ BackendsSettle

(***************************************************************************)
(* Two invocations on the one exported instance, interleaved at their      *)
(* awaits.  Both summarise pushes to one repository; the provider, the     *)
(* key and what the backends answer vary as in Spec.                       *)
(***************************************************************************)
\* Two pushes to one repository, with different commits and diffs.
PairPushes ==
    { [commits |-> <<[message |-> <<"a", NL, "b">>]>>,
       repository |-> r, diff |-> NullDiff] : r \in {q \in Repositories : q.name = "bot"} }
    \cup
    { [commits |-> <<[message |-> <<"a">>], [message |-> <<>>]>>,
       repository |-> r, diff |-> d] :
         r \in {q \in Repositories : q.name = "bot"}, d \in Diffs \ {NullDiff} }

InitPair == InitWith(Invocations)

PairCall(i) == CallWith(i, PairPushes)

NextPair ==
    \E i \in Invocations :
        \/ PairCall(i)
        \/ CreateSettles(i)
        \/ FetchSettles(i)
        \/ TextSettles(i)
        \/ JsonSettles(i)
        \/ GenerateSettles(i)
        \/ ResponseSettles(i)
        \/ LogTimer(i)

SpecPair == InitPair /\ [][NextPair]_vars

(***************************************************************************)
(* formatJsonResponse on its own: one call per text of FormatInputs.       *)
(***************************************************************************)
InitFormat ==
    /\ openai = NoClient
    /\ gemini = NoClient
    /\ pc = [i \in Invocations |-> IF i = "call1" THEN "format" ELSE "unused"]
    /\ args = [i \in Invocations |-> NoArgs]
    /\ prompt = [i \in Invocations |-> NoPrompt]
    /\ response = [i \in Invocations |-> NoResponse]
    /\ \E t \in FormatInputs :
           rawResponse = [i \in Invocations |-> IF i = "call1" THEN Text(t) ELSE NoText]
    /\ caught = [i \in Invocations |-> NoError]
    /\ outcome = [i \in Invocations |-> Pending]
    /\ promptLog = [i \in Invocations |-> NoLog]
    /\ responseLog = [i \in Invocations |-> NoLog]
    /\ sent = [i \in Invocations |-> <<>>]
    /\ trace = [i \in Invocations |-> <<>>]
    /\ embed = [i \in Invocations |-> NoEmbed]

\* this.formatJsonResponse(rawResponse)
Format(i) ==
    /\ pc[i] = "format"
    /\ ReturnFormatted(i, rawResponse[i].text, <<>>)
    /\ UNCHANGED <<embed, openai, gemini, args, prompt, response, promptLog, responseLog, sent>>

NextFormat == \E i \in Invocations : Format(i)

SpecFormat == InitFormat /\ [][NextFormat]_vars

(***************************************************************************)
(* PromptService.generatePushPrompt applied to bounded diffs: every text   *)
(* of at most MaxDiffLines lines, each line one of DiffLineKinds.          *)
(***************************************************************************)
MaxDiffLines == 3

\* One line of each kind the filter tells apart: the five header forms, an
\* added, a removed and an unchanged line, and a line that starts with the
\* hunk marker without the space the header test asks for.
DiffLineKinds ==
    { DiffGit \o <<SP, "f">>, IndexSp \o <<"1">>, MinusSp \o <<"f">>,
      PlusSp \o <<"f">>, HunkSp \o <<"-", "1">>,
      <<"+", "x">>, <<"-", "y">>, <<SP, "c">>, Hunk }

DiffTexts ==
    { join(l, <<NL>>) :
        l \in UNION { [1..n -> DiffLineKinds] : n \in 0..MaxDiffLines } }

DiffInputs == {NullDiff} \cup { DiffText(t) : t \in DiffTexts }

PromptCommitLists == { <<>>, <<[message |-> <<"a">>], [message |-> <<"a", NL, "b">>]>> }

InitPrompt ==
    /\ openai = NoClient
    /\ gemini = NoClient
    /\ pc = [i \in Invocations |-> IF i = "call1" THEN "prompt" ELSE "unused"]
    /\ \E c \in PromptCommitLists, r \in Repositories, d \in DiffInputs :
           args = [i \in Invocations |->
                      IF i = "call1"
                      THEN [commits |-> c, provider |-> "none", apiKey |-> "none",
                            repository |-> r, diff |-> d]
                      ELSE NoArgs]
    /\ prompt = [i \in Invocations |-> NoPrompt]
    /\ response = [i \in Invocations |-> NoResponse]
    /\ rawResponse = [i \in Invocations |-> NoText]
    /\ caught = [i \in Invocations |-> NoError]
    /\ outcome = [i \in Invocations |-> Pending]
    /\ promptLog = [i \in Invocations |-> NoLog]
    /\ responseLog = [i \in Invocations |-> NoLog]
    /\ sent = [i \in Invocations |-> <<>>]
    /\ trace = [i \in Invocations |-> <<>>]
    /\ embed = [i \in Invocations |-> NoEmbed]

\* promptService.generatePushPrompt(commits, repository, diff)
BuildPrompt(i) ==
    /\ pc[i] = "prompt"
    /\ prompt' = [prompt EXCEPT ![i] =
                      generatePushPrompt(args[i].commits, args[i].repository, args[i].diff)]
    /\ pc' = [pc EXCEPT ![i] = "prompted"]
    /\ UNCHANGED <<embed, openai, gemini, args, response, rawResponse, caught, outcome,
                   promptLog, responseLog, sent, trace>>

NextPrompt == \E i \in Invocations : BuildPrompt(i)

SpecPrompt == InitPrompt /\ [][NextPrompt]_vars

(***************************************************************************)
(* createDiscordEmbed applied to a message generateUserFriendlyMessage     *)
(* returned.                                                               *)
(***************************************************************************)
EmbedMessages == { formatJsonResponse(t) : t \in ResponseTexts }
CompareUrls == {"https://github.com/me/bot/compare/a...b", "https://github.com/me/web/compare/c...d"}
HideGitHubLinksArgs == {"omitted", "false", "true"}
Timestamps == {"2025-01-01T00:00:00.000Z", "2025-01-01T00:00:00.001Z"}

InitEmbed ==
    /\ openai = NoClient
    /\ gemini = NoClient
    /\ pc = [i \in Invocations |-> IF i = "call1" THEN "done" ELSE "unused"]
    /\ \E m \in EmbedMessages, r \in Repositories :
           /\ args = [i \in Invocations |->
                         IF i = "call1" THEN [NoArgs EXCEPT !.repository = r] ELSE NoArgs]
           /\ outcome = [i \in Invocations |->
                            IF i = "call1" THEN Returned(m) ELSE Pending]
    /\ prompt = [i \in Invocations |-> NoPrompt]
    /\ response = [i \in Invocations |-> NoResponse]
    /\ rawResponse = [i \in Invocations |-> NoText]
    /\ caught = [i \in Invocations |-> NoError]
    /\ promptLog = [i \in Invocations |-> NoLog]
    /\ responseLog = [i \in Invocations |-> NoLog]
    /\ sent = [i \in Invocations |-> <<>>]
    /\ trace = [i \in Invocations |-> <<>>]
    /\ embed = [i \in Invocations |-> NoEmbed]

\* createDiscordEmbed(message, repository, compareUrl, hideGitHubLinks) on
\* the message invocation i returned.
CreateEmbed(i) ==
    /\ pc[i] = "done"
    /\ outcome[i].kind = "returned"
    /\ ~embed[i].called
    /\ \E compareUrl \in CompareUrls, hideGitHubLinks \in HideGitHubLinksArgs,
          now \in Timestamps :
           embed' = [embed EXCEPT ![i] =
                        [called |-> TRUE,
                         compareUrl |-> compareUrl,
                         hideGitHubLinks |-> hideGitHubLinks,
                         value |-> createDiscordEmbed(outcome[i].msg, args[i].repository,
                                                      compareUrl, hideGitHubLinks, now)]]
    /\ UNCHANGED <<openai, gemini, pc, args, prompt, response, rawResponse, caught,
                   outcome, promptLog, responseLog, sent, trace>>

NextEmbed == \E i \in Invocations : CreateEmbed(i)

SpecEmbed == InitEmbed /\ [][NextEmbed]_vars

(***************************************************************************)
(* Properties.                                                             *)
(***************************************************************************)
Supported == {"openai", "openrouter", "gemini"}

Done(i) == pc[i] = "done"

InTrace(i, e) == \E k \in 1..Len(trace[i]) : trace[i][k] = e

CountInTrace(i, e) == Cardinality({k \in 1..Len(trace[i]) : trace[i][k] = e})

\* C1: for every provider, API key, repository, diff and backend outcome,
\* an invocation whose commit list holds at least one commit settles its
\* promise with a message; it is never rejected.
C1_NeverRejects ==
    \A i \in Invocations :
        /\ outcome[i].kind # "pending" <=> Done(i)
        /\ Done(i) /\ Len(args[i].commits) >= 1 => outcome[i].kind = "returned"

\* A finished invocation with commits whose backend answered a non-2xx status.
C1_Witness ==
    \E i \in Invocations :
        /\ Done(i)
        /\ Len(args[i].commits) >= 1
        /\ args[i].provider = "openrouter"
        /\ caught[i].status = 500
        /\ outcome[i].kind = "returned"

\* C2: the message an invocation returns is never the empty string.
C2_NonEmptyMessage ==
    \A i \in Invocations :
        Done(i) /\ outcome[i].kind = "returned" => outcome[i].msg # <<>>

\* C3: when the adapter of one of the three providers raises, the invocation
\* settles as generateFallbackMessage(commits, repository) does.
C3_FailureYieldsFallback ==
    \A i \in Invocations :
        Done(i) /\ args[i].provider \in Supported /\ InTrace(i, "throw")
            => outcome[i] = generateFallbackMessage(args[i].commits, args[i].repository)

\* The Gemini adapter raised and the invocation returned the fallback of two commits.
C3_Witness ==
    \E i \in Invocations :
        /\ Done(i)
        /\ args[i].provider = "gemini"
        /\ InTrace(i, "throw")
        /\ Len(args[i].commits) = 2
        /\ outcome[i].kind = "returned"
        /\ outcome[i].msg = <<"a", " ", "(", "+", "1", " ", "m", "o", "r", "e", ")">>

\* The text the adapter handed back is no JSON once its fences are stripped.
Malformed(i) ==
    rawResponse[i].set /\ ~JSONparse(cleanedResponse(rawResponse[i].text)).ok

\* C4: when the backend call succeeds with a text that is no valid JSON after
\* fence stripping, the message is that text unchanged, fences included, and
\* neither the outer catch nor generateFallbackMessage has run.
C4_MalformedReturnsRaw ==
    \A i \in Invocations :
        Done(i) /\ Malformed(i)
            => /\ outcome[i] = Returned(rawResponse[i].text)
               /\ ~InTrace(i, "catch")
               /\ ~InTrace(i, "generateFallbackMessage")
               /\ caught[i] = NoError

\* A fenced prose answer came back as it was, and differs from the fallback.
C4_Witness ==
    \E i \in Invocations :
        /\ Done(i)
        /\ Malformed(i)
        /\ rawResponse[i].text = JsonFenced(<<"a", "b", SP, "c">>)
        /\ outcome[i].msg = JsonFenced(<<"a", "b", SP, "c">>)
        /\ Len(args[i].commits) = 1
        /\ outcome[i] # generateFallbackMessage(args[i].commits, args[i].repository)

\* C5: a call with an unrecognised provider raises at once: in the one step
\* from the call to its settled promise no client is created, no request is
\* sent, and the promise settles as generateFallbackMessage does.
C5_UnsupportedBeforeAnyCall ==
    [][\A i \in Invocations :
          pc[i] = "idle" /\ pc'[i] # "idle" /\ args'[i].provider \notin Supported
              => /\ pc'[i] = "done"
                 /\ openai' = openai /\ gemini' = gemini
                 /\ sent'[i] = <<>>
                 /\ trace'[i] = <<"throw", "catch", "generateFallbackMessage">>
                 /\ caught'[i].name = "Unsupported provider"
                 /\ outcome'[i] = generateFallbackMessage(args'[i].commits, args'[i].repository)]_vars

\* A call with the provider 'claude' has returned the fallback message.
C5_Witness ==
    \E i \in Invocations :
        /\ Done(i)
        /\ args[i].provider = "claude"
        /\ outcome[i] = Returned(<<"a">>)
        /\ sent[i] = <<>>
        /\ ~openai.set /\ ~gemini.set

Adapters == {"generateWithOpenAI", "generateWithOpenRouter", "generateWithGemini"}

\* C6: an invocation enters at most one adapter and sends at most one
\* generation request, also when that request failed and the fallback was
\* returned.
C6_AtMostOneRequest ==
    \A i \in Invocations :
        /\ Len(sent[i]) <= 1
        /\ CountInTrace(i, "request") <= 1
        /\ Cardinality({k \in 1..Len(trace[i]) : trace[i][k] \in Adapters}) <= 1
        /\ \A k \in 1..Len(sent[i]) : sent[i][k].backend = args[i].provider

\* A failed request was followed by the fallback, with one request sent.
C6_Witness ==
    \E i \in Invocations :
        /\ Done(i)
        /\ Len(sent[i]) = 1
        /\ caught[i].name = "OpenRouter API error"
        /\ InTrace(i, "generateFallbackMessage")

\* title is the first line of message.
IsFirstLineOf(title, message) ==
    /\ Len(title) <= Len(message)
    /\ \A k \in 1..Len(title) : title[k] = message[k] /\ title[k] # NL
    /\ Len(title) = Len(message) \/ message[Len(title) + 1] = NL

\* C7: generateFallbackMessage returns the first line of the only commit's
\* message, and for n > 1 commits the first line of the first commit's
\* message followed by " (+<n-1> more)"; any repository and any commit list
\* of the same length with the same first message give the same result.
C7_FallbackMessage ==
    \A i \in Invocations :
        Done(i) /\ InTrace(i, "generateFallbackMessage") /\ Len(args[i].commits) >= 1
            => LET commits == args[i].commits
                   n == Len(commits)
                   m == outcome[i].msg
               IN  /\ outcome[i].kind = "returned"
                   /\ n = 1 => IsFirstLineOf(m, commits[1].message)
                   /\ n > 1 =>
                        \E title \in {SubSeq(m, 1, k) : k \in 0..Len(m)} :
                            /\ IsFirstLineOf(title, commits[1].message)
                            /\ m = title \o <<" ", "(", "+">> \o NumberToString(n - 1)
                                         \o <<" ", "m", "o", "r", "e", ")">>
                   /\ \A other \in CommitLists, repository \in Repositories :
                          Len(other) = n /\ other[1].message = commits[1].message
                              => generateFallbackMessage(other, repository) = outcome[i]

\* The fallback of two commits whose messages differ and the first of which
\* has a body.
C7_Witness ==
    \E i \in Invocations :
        /\ Done(i)
        /\ InTrace(i, "generateFallbackMessage")
        /\ Len(args[i].commits) = 2
        /\ args[i].commits[1].message = <<"a", NL, "b">>
        /\ args[i].commits[2].message = <<>>
        /\ outcome[i].msg = <<"a", " ", "(", "+", "1", " ", "m", "o", "r", "e", ")">>

\* C8: generateFallbackMessage never fails, so no invocation, whatever its
\* commit list, ends with a rejected promise.
C8_FallbackNeverFails ==
    \A i \in Invocations :
        Done(i) => outcome[i].kind = "returned"

\* The value the cleaned text of invocation i parses to.
Parsed(i) == JSONparse(cleanedResponse(rawResponse[i].text)).val

\* The cleaned text parsed to an object with a text summary and with changes
\* that are absent or a list of texts.
ParsedShape(i) ==
    /\ rawResponse[i].set
    /\ JSONparse(cleanedResponse(rawResponse[i].text)).ok
    /\ Parsed(i).t = "object"
    /\ Get(Parsed(i), SummaryKey).t = "string"
    /\ LET changes == Get(Parsed(i), ChangesKey)
       IN  \/ changes.t = "undefined"
           \/ /\ changes.t = "array"
              /\ \A k \in 1..Len(changes.a) : changes.a[k].t = "string"

\* C9: for a parsed {summary, changes} the message is the line
\* "Update summary: " + summary, followed, only if changes is a non-empty
\* list, by one empty line and one bullet line per entry, in order; with
\* empty or absent changes the message is the summary line alone.
C9_RenderedMessage ==
    \A i \in Invocations :
        Done(i) /\ ParsedShape(i)
            => LET summary == Get(Parsed(i), SummaryKey).s
                   changes == Get(Parsed(i), ChangesKey)
                   entries == IF changes.t = "array" THEN changes.a ELSE <<>>
                   lines == split(outcome[i].msg)
               IN  /\ outcome[i].kind = "returned"
                   /\ lines[1] = UpdatePrefix \o summary
                   /\ entries = <<>> => outcome[i].msg = UpdatePrefix \o summary
                   /\ entries # <<>> =>
                        /\ Len(lines) = Len(entries) + 2
                        /\ lines[2] = <<>>
                        /\ \A k \in 1..Len(entries) :
                              lines[k + 2] = <<Bullet, SP>> \o entries[k].s

\* A summary with two changes was rendered on four lines.
C9_Witness ==
    \E i \in Invocations :
        /\ Done(i)
        /\ ParsedShape(i)
        /\ Get(Parsed(i), ChangesKey).t = "array"
        /\ Len(Get(Parsed(i), ChangesKey).a) = 2
        /\ Len(split(outcome[i].msg)) = 4

\* A summary with an empty list of changes was rendered.
C9_WitnessEmpty ==
    \E i \in Invocations :
        /\ Done(i)
        /\ ParsedShape(i)
        /\ Get(Parsed(i), ChangesKey) = JArr(<<>>)

\* C10: a valid JSON text of the {summary, changes} shape wrapped in a
\* ```json fence gives the message that the text itself gives.
C10_FenceTransparent ==
    \A i \in Invocations :
        Done(i) /\ rawResponse[i].set
            => \A J \in ShapedBodies :
                   rawResponse[i].text = JsonFenced(J)
                       => /\ JSONparse(J).ok
                          /\ outcome[i] = Returned(formatJsonResponse(J))
                          /\ outcome[i].msg # rawResponse[i].text

\* A fenced object whose texts hold backticks was rendered.
C10_Witness ==
    \E i \in Invocations :
        /\ Done(i)
        /\ \E J \in ShapedBodies :
               /\ rawResponse[i].text = JsonFenced(J)
               /\ \E k \in 1..Len(J) : J[k] = BT
        /\ startsWith(outcome[i].msg, UpdatePrefix)

\* The raw text of invocation i is body b between an opening fence marker,
\* with the json tag, another tag or none, and a closing fence marker.
IsFencedBody(i, b) ==
    rawResponse[i].text \in {JsonFenced(b), Fenced(b), TagFenced(b)}

\* C11: only the fence markers at the start and the end of the raw text are
\* removed, whatever the language tag of the opening marker: the text
\* between them (backticks inside JSON strings included) is what is parsed
\* and rendered.
C11_OnlyOuterFencesRemoved ==
    \A i \in Invocations :
        Done(i) /\ rawResponse[i].set
            => \A b \in Bodies :
                   IsFencedBody(i, b)
                       => /\ cleanedResponse(rawResponse[i].text) = trim(b)
                          /\ JSONparse(b).ok /\ ~Render(JSONparse(b).val).threw
                                => outcome[i].msg = Render(JSONparse(b).val).msg

\* C12: no bullet line of a rendered message is empty.
C12_NoEmptyBullet ==
    \A i \in Invocations :
        Done(i) /\ rawResponse[i].set /\ startsWith(outcome[i].msg, UpdatePrefix)
            => \A k \in 1..Len(split(outcome[i].msg)) :
                   split(outcome[i].msg)[k] # <<Bullet, SP>>

(***************************************************************************)
(* Properties of the filtered diff (SpecPrompt).                           *)
(***************************************************************************)
Prompted(i) == pc[i] = "prompted"

NonEmptyDiff(i) == ~args[i].diff.null /\ args[i].diff.text # <<>>

\* The lines of the diff handed in, and the lines of the filtered diff (the
\* empty text is the join of no line: a lone empty line is never emitted).
InputLines(i) == split(args[i].diff.text)
OutputLines(i) ==
    IF prompt[i].filteredDiff = <<>> THEN <<>> ELSE split(prompt[i].filteredDiff)

\* C13: for the null diff and for the empty text the filtered diff is the
\* placeholder "No diff available".
C13_PlaceholderForNoDiff ==
    \A i \in Invocations :
        Prompted(i) /\ ~NonEmptyDiff(i) => prompt[i].filteredDiff = NoDiffAvailable

C13_Witness ==
    \E i \in Invocations :
        /\ Prompted(i)
        /\ ~args[i].diff.null
        /\ args[i].diff.text = <<>>
        /\ prompt[i].filteredDiff = NoDiffAvailable

\* C14: the header lines of the filtered diff are the header lines of the
\* input, each once and in input order.
C14_HeadersOnceInOrder ==
    \A i \in Invocations :
        Prompted(i) /\ NonEmptyDiff(i)
            => SelectSeq(OutputLines(i), IsHeader) = SelectSeq(InputLines(i), IsHeader)

\* out[j..] can be read off in[k..] by dropping lines.
RECURSIVE IsSubsequenceFrom(_, _, _, _)
IsSubsequenceFrom(out, in, j, k) ==
    IF j > Len(out) THEN TRUE
    ELSE IF k > Len(in) THEN FALSE
    ELSE IF out[j] = in[k] THEN IsSubsequenceFrom(out, in, j + 1, k + 1)
    ELSE IsSubsequenceFrom(out, in, j, k + 1)

\* C15: on a non-empty diff the filtered diff is a subsequence of the lines
\* of the input, and has no more lines than the input.
C15_OutputIsSubsequence ==
    \A i \in Invocations :
        Prompted(i) /\ NonEmptyDiff(i)
            => /\ IsSubsequenceFrom(OutputLines(i), InputLines(i), 1, 1)
               /\ Len(OutputLines(i)) <= Len(InputLines(i))

\* Line k of lines is a change line: it starts with + or - and is not one
\* of the header forms.
IsChangeAt(lines, k) ==
    k \in 1..Len(lines) /\ IsChanged(lines[k]) /\ ~IsHeader(lines[k])

\* Line k of lines is a context line next to a change line.
IsNeighbourAt(lines, k) ==
    /\ ~IsHeader(lines[k])
    /\ IsContext(lines[k])
    /\ IsChangeAt(lines, k - 1) \/ IsChangeAt(lines, k + 1)

\* The change lines of lines and the context lines next to one, in order.
ChangesAndNeighbours(lines) ==
    LET Kept(k) == IsChangeAt(lines, k) \/ IsNeighbourAt(lines, k)
        idx == SelectSeq([k \in 1..Len(lines) |-> k], Kept)
    IN  [n \in 1..Len(idx) |-> lines[idx[n]]]

IsNotHeader(line) == ~IsHeader(line)

\* C16: the lines of the filtered diff that are not headers are the change
\* lines and the context lines next to a change line, each once and in
\* input order.
C16_ChangesAndNeighbours ==
    \A i \in Invocations :
        Prompted(i) /\ NonEmptyDiff(i)
            => SelectSeq(OutputLines(i), IsNotHeader) = ChangesAndNeighbours(InputLines(i))

\* A context line between two change lines, emitted once.
C16_Witness ==
    \E i \in Invocations :
        /\ Prompted(i)
        /\ Len(InputLines(i)) = 3
        /\ IsChangeAt(InputLines(i), 1)
        /\ IsNeighbourAt(InputLines(i), 2)
        /\ IsChangeAt(InputLines(i), 3)
        /\ OutputLines(i) = InputLines(i)

\* A context line with no change line next to it, dropped.
C16_WitnessDropped ==
    \E i \in Invocations :
        /\ Prompted(i)
        /\ Len(InputLines(i)) = 3
        /\ IsChangeAt(InputLines(i), 1)
        /\ IsNeighbourAt(InputLines(i), 2)
        /\ IsContext(InputLines(i)[3]) /\ ~IsHeader(InputLines(i)[3])
        /\ OutputLines(i) = SubSeq(InputLines(i), 1, 2)

\* The repositories that share the name of repository r.
SameNameAs(r) == {r, [r EXCEPT !.full_name = "fork/" \o r.name, !.html_url = "https://fork"]}

\* C17: the prompt is a function of the repository name and the diff alone:
\* a call with the same name and diff and any other commits builds the
\* prompt this call built.
C17_PromptFromNameAndDiff ==
    \A i \in Invocations :
        Prompted(i)
            => \A c \in PromptCommitLists \cup {l \in CommitLists : Len(l) = 1},
                  r \in SameNameAs(args[i].repository) :
                   generatePushPrompt(c, r, args[i].diff) = prompt[i]

C17_Witness ==
    \E i \in Invocations :
        /\ Prompted(i)
        /\ NonEmptyDiff(i)
        /\ Len(args[i].commits) = 2
        /\ \E r \in SameNameAs(args[i].repository) :
               r # args[i].repository /\ generatePushPrompt(<<>>, r, args[i].diff) = prompt[i]

(***************************************************************************)
(* Properties of the requests and of the failure path (Spec).              *)
(***************************************************************************)
\* C18: every request an adapter sends carries the fixed system instruction
\* and, as user instruction, the prompt generatePushPrompt builds from the
\* arguments of the invocation.
C18_RequestCarriesSystemAndPrompt ==
    \A i \in Invocations :
        \A k \in 1..Len(sent[i]) :
            /\ sent[i][k].system = SystemMessage
            /\ sent[i][k].prompt =
                   generatePushPrompt(args[i].commits, args[i].repository, args[i].diff)

\* Invocation i went through the catch of generateUserFriendlyMessage.
Failed(i) == Done(i) /\ caught[i] # NoError

\* C19 (SpecPair): two invocations that fail with the same commits return
\* the same message, whatever status, error body or exception each caught.
C19_FailureMessageIgnoresDetail ==
    \A i, j \in Invocations :
        Failed(i) /\ Failed(j) /\ args[i].commits = args[j].commits
            => outcome[i] = outcome[j]

C19_Witness ==
    \E i, j \in Invocations :
        /\ Failed(i) /\ Failed(j)
        /\ args[i].commits = args[j].commits
        /\ caught[i].status = 500
        /\ caught[j].status # 500
        /\ caught[i].detail # caught[j].detail
        /\ outcome[i].kind = "returned"
        /\ outcome[i] = outcome[j]

(***************************************************************************)
(* Properties of the embed (SpecEmbed).                                    *)
(***************************************************************************)
\* C20: the description of the embed is the message; with hideGitHubLinks
\* true the embed has no fields key; otherwise it has exactly two fields,
\* the repository link and then the compare link.
C20_EmbedShape ==
    \A i \in Invocations :
        embed[i].called
            => LET e == embed[i].value IN
               /\ e.description = outcome[i].msg
               /\ embed[i].hideGitHubLinks = "true" => "fields" \notin DOMAIN e
               /\ embed[i].hideGitHubLinks # "true"
                     => /\ "fields" \in DOMAIN e
                        /\ Len(e.fields) = 2
                        /\ e.fields[1].name = "Repository"
                        /\ e.fields[1].value =
                               <<"[", args[i].repository.full_name, "](",
                                 args[i].repository.html_url, ")">>
                        /\ e.fields[2].name = "View Changes"
                        /\ e.fields[2].value =
                               <<"[", "Compare", "](", embed[i].compareUrl, ")">>

C20_Witness ==
    \E i \in Invocations :
        /\ embed[i].called
        /\ embed[i].hideGitHubLinks = "true"
        /\ outcome[i].msg # <<>>
        /\ embed[i].value.description = outcome[i].msg
        /\ DOMAIN embed[i].value = {"color", "description", "timestamp", "footer"}

C20_WitnessLinks ==
    \E i \in Invocations :
        /\ embed[i].called
        /\ embed[i].hideGitHubLinks = "omitted"
        /\ "fields" \in DOMAIN embed[i].value
        /\ Len(embed[i].value.fields) = 2

(***************************************************************************)
(* Properties of interleaved invocations (SpecPair).                       *)
(***************************************************************************)
\* What invocation i returns, from the text its adapter handed back or,
\* without one, from its commits.
OwnMessage(i) ==
    IF rawResponse[i].set
    THEN Returned(formatJsonResponse(rawResponse[i].text))
    ELSE generateFallbackMessage(args[i].commits, args[i].repository)

\* C21 (SpecPair): with invocations interleaved at their awaits, every
\* request of an invocation carries its own API key and its own prompt, and
\* a finished invocation returns the message derived from its own backend
\* text and commits.
C21_OwnKeyPromptAndMessage ==
    \A i \in Invocations :
        /\ \A k \in 1..Len(sent[i]) :
               /\ sent[i][k].apiKey = args[i].apiKey
               /\ sent[i][k].prompt =
                      generatePushPrompt(args[i].commits, args[i].repository, args[i].diff)
        /\ Done(i) => outcome[i] = OwnMessage(i)

\* One invocation has finished on its backend's text while the instance
\* holds the client of the other, which is still suspended.
C21_Witness ==
    \E i, j \in Invocations :
        /\ Done(i) /\ rawResponse[i].set /\ outcome[i] = OwnMessage(i)
        /\ pc[j] = "awaitCreate"
        /\ args[i].provider = "openai"
        /\ args[i].apiKey # args[j].apiKey
        /\ args[i].commits # args[j].commits
        /\ args[i].diff # args[j].diff
        /\ openai.apiKey = args[j].apiKey
        /\ Len(sent[i]) = 1 /\ sent[i][1].apiKey = args[i].apiKey
        /\ Len(sent[j]) = 1 /\ sent[j][1].apiKey = args[j].apiKey
        /\ sent[i][1].prompt # sent[j][1].prompt

\* C22: an invocation leaves no state behind: once every invocation has
\* returned, the fields of the service instance are what the constructor
\* set.
C22_NoStateLeftBehind ==
    (\A i \in Invocations : pc[i] \in {"unused", "done"})
        => openai = NoClient /\ gemini = NoClient

\* C23 (SpecPrompt): the filtered diff is made of the lines at the emitted
\* indices, and no input line index is emitted twice.
C23_EachIndexOnce ==
    \A i \in Invocations :
        Prompted(i) /\ NonEmptyDiff(i)
            => LET lines == InputLines(i)
                   idx == FilteredIndices(lines)
               IN  /\ OutputLines(i) = [k \in 1..Len(idx) |-> lines[idx[k]]]
                   /\ \A j, k \in 1..Len(idx) : j # k => idx[j] # idx[k]

(***************************************************************************)
(* Properties of the adapters and of the logging tasks (Spec).             *)
(***************************************************************************)
\* C24: the OpenRouter adapter reads the error body only of a non-2xx
\* response and then fails, with the error that carries the status once
\* the body is read; it parses the body and returns a value only for a 2xx
\* response, and the value is the trimmed text of the first choice.
C24_OpenRouterStatus ==
    \A i \in Invocations :
        args[i].provider = "openrouter"
            => /\ pc[i] = "awaitText" => ~response[i].ok
               /\ pc[i] = "awaitJson" => response[i].ok
               /\ Done(i) /\ response[i].status # 0 /\ ~response[i].ok
                     => /\ ~rawResponse[i].set
                        /\ caught[i].name \in {"OpenRouter API error", "FetchError"}
                        /\ InTrace(i, "throw")
               /\ caught[i].name = "OpenRouter API error"
                     => ~response[i].ok /\ caught[i].status = response[i].status
               /\ rawResponse[i].set
                     => /\ response[i].ok
                        /\ \E c \in Completions :
                               /\ c.choices # <<>>
                               /\ ~c.choices[1].null
                               /\ rawResponse[i].text = trim(c.choices[1].text)

C24_Witness ==
    \E i \in Invocations :
        /\ args[i].provider = "openrouter"
        /\ Done(i)
        /\ response[i].status = 500
        /\ caught[i] = Error("OpenRouter API error", 500, "statusText")
        /\ ~rawResponse[i].set

C24_WitnessSuccess ==
    \E i \in Invocations :
        /\ args[i].provider = "openrouter"
        /\ Done(i)
        /\ response[i].status = 200
        /\ rawResponse[i].set
        /\ rawResponse[i].text = <<"a", "b", SP, "c">>

\* C25: the logging tasks are started and not awaited: whatever is left of
\* them, the step the invocation is suspended at can be taken, and the
\* message of a finished invocation is the one its backend text or its
\* commits give, however the timers of the logging tasks were interleaved.
C25_LoggingNotAwaited ==
    \A i \in Invocations :
        args[i].provider \in {"openrouter", "gemini"}
            => /\ pc[i] = "awaitFetch" => ENABLED FetchSettles(i)
               /\ pc[i] = "awaitText" => ENABLED TextSettles(i)
               /\ pc[i] = "awaitJson" => ENABLED JsonSettles(i)
               /\ pc[i] = "awaitGenerate" => ENABLED GenerateSettles(i)
               /\ pc[i] = "awaitResponse" => ENABLED ResponseSettles(i)
               /\ Done(i) => outcome[i] = OwnMessage(i)
               /\ promptLog[i].started

\* The invocation has returned its message and its logging task still
\* waits for a timer.
C25_Witness ==
    \E i \in Invocations :
        /\ args[i].provider = "openrouter"
        /\ Done(i)
        /\ rawResponse[i].set
        /\ outcome[i].kind = "returned"
        /\ promptLog[i].started
        /\ promptLog[i].waits > 0

(***************************************************************************)
(* Progress of an invocation (SpecLive).                                   *)
(***************************************************************************)
Awaits ==
    {"awaitCreate", "awaitFetch", "awaitText", "awaitJson", "awaitGenerate", "awaitResponse"}

\* Invocation i has issued its backend request.
Requested(i) == Len(sent[i]) > 0

\* C26 (SpecLive): an invocation whose backend promises settle eventually
\* returns a message, the message never changes afterwards, and until it
\* returns the invocation is suspended at one of the awaits of its adapter.
C26_EventuallyReturnsOneMessage ==
    /\ \A i \in Invocations :
           Requested(i) ~> (Done(i) /\ outcome[i].kind = "returned")
    /\ [][\A i \in Invocations :
              Done(i) => pc'[i] = pc[i] /\ outcome'[i] = outcome[i]]_vars
    /\ [](\A i \in Invocations : Requested(i) /\ ~Done(i) => pc[i] \in Awaits)

(***************************************************************************)
(* Which of formatJsonResponse and generateFallbackMessage ran (Spec).     *)
(***************************************************************************)
\* The position of the first event e in the trace of invocation i.
FirstInTrace(i, e) ==
    CHOOSE k \in 1..Len(trace[i]) :
        trace[i][k] = e /\ \A j \in 1..(k - 1) : trace[i][j] # e

\* C27: an invocation runs formatJsonResponse or generateFallbackMessage,
\* never both and, once finished, exactly one: formatJsonResponse only on
\* the text its adapter returned and with nothing run after it,
\* generateFallbackMessage only after an exception was thrown; the one that
\* ran gives the outcome.
C27_FormatOrFallback ==
    \A i \in Invocations :
        /\ CountInTrace(i, "formatJsonResponse")
               + CountInTrace(i, "generateFallbackMessage") = (IF Done(i) THEN 1 ELSE 0)
        /\ InTrace(i, "formatJsonResponse")
              => /\ rawResponse[i].set
                 /\ caught[i] = NoError
                 /\ trace[i][Len(trace[i])] = "formatJsonResponse"
                 /\ outcome[i] = Returned(formatJsonResponse(rawResponse[i].text))
        /\ InTrace(i, "generateFallbackMessage")
              => /\ ~rawResponse[i].set
                 /\ caught[i] # NoError
                 /\ InTrace(i, "throw")
                 /\ FirstInTrace(i, "throw") < FirstInTrace(i, "generateFallbackMessage")
                 /\ outcome[i] = generateFallbackMessage(args[i].commits, args[i].repository)

\* An adapter returned a text that is no JSON: formatJsonResponse ran, and
\* the fallback did not.
C27_Witness ==
    \E i \in Invocations :
        /\ Done(i)
        /\ rawResponse[i].set
        /\ ~JSONparse(cleanedResponse(rawResponse[i].text)).ok
        /\ InTrace(i, "formatJsonResponse")
        /\ ~InTrace(i, "generateFallbackMessage")

C27_WitnessFallback ==
    \E i \in Invocations :
        /\ Done(i)
        /\ args[i].provider = "gemini"
        /\ InTrace(i, "generateFallbackMessage")
        /\ ~InTrace(i, "formatJsonResponse")

(***************************************************************************)
(* formatJsonResponse on texts that parse to other values (SpecFormat).    *)
(***************************************************************************)
\* The cleaned text parses to a value on which the rendering raises: null,
\* or an object whose changes is a non-empty text (it has a positive length
\* and no map).
RenderingRaises(i) ==
    /\ rawResponse[i].set
    /\ JSONparse(cleanedResponse(rawResponse[i].text)).ok
    /\ \/ Parsed(i).t = "null"
       \/ /\ Parsed(i).t = "object"
          /\ Get(Parsed(i), ChangesKey).t = "string"
          /\ Get(Parsed(i), ChangesKey).s # <<>>

\* C28: formatJsonResponse returns a text for every text, and the raw text
\* itself whenever the parsing or the rendering raises.
C28_FormatIsTotal ==
    \A i \in Invocations :
        Done(i) /\ rawResponse[i].set
            => /\ outcome[i].kind = "returned"
               /\ caught[i] = NoError
               /\ Malformed(i) \/ RenderingRaises(i)
                     => outcome[i].msg = rawResponse[i].text

C28_Witness ==
    \E i \in Invocations :
        /\ Done(i)
        /\ RenderingRaises(i)
        /\ Parsed(i).t = "null"
        /\ rawResponse[i].text # cleanedResponse(rawResponse[i].text)
        /\ outcome[i] = Returned(rawResponse[i].text)

C28_WitnessChanges ==
    \E i \in Invocations :
        /\ Done(i)
        /\ RenderingRaises(i)
        /\ Parsed(i).t = "object"
        /\ outcome[i] = Returned(rawResponse[i].text)

\* The cleaned text parses to an object with a text summary.
HasTextSummary(i) ==
    /\ Parsed(i).t = "object"
    /\ Get(Parsed(i), SummaryKey).t = "string"

\* C29: a text that is valid JSON but no object with a text summary is
\* returned unchanged, like a malformed one.
C29_OtherShapesReturnRaw ==
    \A i \in Invocations :
        /\ Done(i)
        /\ rawResponse[i].set
        /\ JSONparse(cleanedResponse(rawResponse[i].text)).ok
        /\ ~HasTextSummary(i)
        => outcome[i] = Returned(rawResponse[i].text)

====
